---------------------------- MODULE Spec2Model ----------------------------
(***************************************************************************)
(* Far::PatchTables (opensubdiv/far/patchTables.h): the patch-table        *)
(* container and its three evaluation entry points, Evaluate,              *)
(* EvaluateFaceVarying and EvaluateBilinear.                               *)
(*                                                                         *)
(* The container is built once (Init: the factory is a friend class) and   *)
(* then only read.  Each caller thread runs one evaluation call at a time, *)
(* statement group by statement group; assert is the <cassert> macro with  *)
(* NDEBUG undefined, so a failed assertion aborts the whole process.       *)
(*                                                                         *)
(* Parametric coordinates are the rationals k/SDen; weights and primvar    *)
(* values are exact: a destination holds the numerators of its value over  *)
(* VDen and of its two derivatives over DDen.                              *)
(***************************************************************************)
EXTENDS Integers, Sequences, FiniteSets

\* Resolution of the sampled parametric coordinates: s, t \in {0/SDen .. SDen/SDen}.
SDen == 1

\* Number of vertices of the source primvar buffer.
NumVerts == 5

\* Common denominators of the value weights and of the derivative weights.
VDen == 36 * SDen * SDen * SDen * SDen * SDen * SDen
DDen == 12 * SDen * SDen * SDen * SDen * SDen

-----------------------------------------------------------------------------
(* PatchDescriptor (far/patchDescriptor.h)                                 *)

Types ==
    {"REGULAR", "SINGLE_CREASE", "BOUNDARY", "CORNER", "GREGORY",
     "GREGORY_BOUNDARY", "GREGORY_BASIS", "QUADS", "TRIANGLES"}

\* The enum's order: REGULAR..CORNER is a contiguous band.
TypeOrd(type) ==
    CASE type = "REGULAR"          -> 0
      [] type = "SINGLE_CREASE"    -> 1
      [] type = "BOUNDARY"         -> 2
      [] type = "CORNER"           -> 3
      [] type = "GREGORY"          -> 4
      [] type = "GREGORY_BOUNDARY" -> 5
      [] type = "GREGORY_BASIS"    -> 6
      [] type = "QUADS"            -> 7
      [] type = "TRIANGLES"        -> 8

\* PatchDescriptor::GetNumControlVertices
GetNumControlVertices(type) ==
    CASE type = "REGULAR"          -> 16
      [] type = "SINGLE_CREASE"    -> 16
      [] type = "BOUNDARY"         -> 12
      [] type = "CORNER"           -> 9
      [] type = "GREGORY"          -> 4
      [] type = "GREGORY_BOUNDARY" -> 4
      [] type = "GREGORY_BASIS"    -> 20
      [] type = "QUADS"            -> 4
      [] type = "TRIANGLES"        -> 3

-----------------------------------------------------------------------------
(* Destination accumulator (the U capability) and weights (interpolate.h)  *)

\* dst.Clear()
Clear == [point |-> 0, deriv1 |-> 0, deriv2 |-> 0]

\* dst.AddWithWeight(v, w, wd1, wd2)
AddWithWeight(d, v, w, wd1, wd2) ==
    [point  |-> d.point  + v * w,
     deriv1 |-> d.deriv1 + v * wd1,
     deriv2 |-> d.deriv2 + v * wd2]

\* PatchParam::BitField::Clear()
ClearBits == [depth |-> 0, u |-> 0, v |-> 0]

Pow2(n) == IF n = 0 THEN 1 ELSE 2

\* PatchParam::BitField::Normalize, on a numerator k of k/SDen:
\* (s - u * frac) / frac with frac = 1 / 2^depth.
Normalize(bits, k) == k * Pow2(bits.depth) - bits.u * SDen
NormalizeT(bits, k) == k * Pow2(bits.depth) - bits.v * SDen

\* Tensor product of two 4-vectors as 16 weights, point[4*i+j] = sW[j]*tW[i].
Tensor4(sW, tW) ==
    [n \in 1..16 |-> sW[((n - 1) % 4) + 1] * tW[((n - 1) \div 4) + 1]]

\* Uniform cubic B-spline basis at k/SDen, numerators over 6*SDen^3.
BSplineBasis(k) ==
    LET D == SDen
    IN  << (D - k) * (D - k) * (D - k),
           3 * k * k * k - 6 * k * k * D + 4 * D * D * D,
           (0 - 3) * k * k * k + 3 * k * k * D + 3 * k * D * D + D * D * D,
           k * k * k >>

\* Its derivative, numerators over 2*SDen^2.
BSplineBasisDeriv(k) ==
    LET D == SDen
    IN  << 0 - (D - k) * (D - k),
           3 * k * k - 4 * k * D,
           (0 - 3) * k * k + 2 * k * D + D * D,
           k * k >>

\* GetBSplineWeights(bits, s, t, Q, Qd1, Qd2)
GetBSplineWeights(bits, s, t) ==
    LET ks == Normalize(bits, s)
        kt == NormalizeT(bits, t)
    IN  [basis |-> "BSpline",
         Q   |-> Tensor4(BSplineBasis(ks), BSplineBasis(kt)),
         Qd1 |-> Tensor4(BSplineBasisDeriv(ks), BSplineBasis(kt)),
         Qd2 |-> Tensor4(BSplineBasis(ks), BSplineBasisDeriv(kt))]

\* Cubic Bernstein basis at k/SDen, numerators over SDen^3.
BezierBasis(k) ==
    LET D == SDen
    IN  << (D - k) * (D - k) * (D - k),
           3 * k * (D - k) * (D - k),
           3 * k * k * (D - k),
           k * k * k >>

\* Its derivative, numerators over SDen^2.
BezierBasisDeriv(k) ==
    LET D == SDen
    IN  << (0 - 3) * (D - k) * (D - k),
           3 * (D - k) * (D - k) - 6 * k * (D - k),
           6 * k * (D - k) - 3 * k * k,
           3 * k * k >>

Scale(c, W) == [n \in 1..Len(W) |-> c * W[n]]

\* GetBezierWeights(bits, s, t, Q, Qd1, Qd2)
GetBezierWeights(bits, s, t) ==
    LET ks == Normalize(bits, s)
        kt == NormalizeT(bits, t)
    IN  [basis |-> "Bezier",
         Q   |-> Scale(36, Tensor4(BezierBasis(ks), BezierBasis(kt))),
         Qd1 |-> Scale(12, Tensor4(BezierBasisDeriv(ks), BezierBasis(kt))),
         Qd2 |-> Scale(12, Tensor4(BezierBasis(ks), BezierBasisDeriv(kt)))]

\* GetBilinearWeights(bits, s, t, Q, Qd1, Qd2): the four corner blends
\* sC*tC, s*tC, s*t, sC*t and their derivatives.
GetBilinearWeights(bits, s, t) ==
    LET D  == SDen
        ks == Normalize(bits, s)
        kt == NormalizeT(bits, t)
        sC == D - ks
        tC == D - kt
        cq == 36 * D * D * D * D
        cd == 12 * D * D * D * D
    IN  [basis |-> "Bilinear",
         Q   |-> Scale(cq, << sC * tC, ks * tC, ks * kt, sC * kt >>),
         Qd1 |-> Scale(cd, << 0 - tC, tC, kt, 0 - kt >>),
         Qd2 |-> Scale(cd, << 0 - sC, 0 - ks, ks, sC >>)]

-----------------------------------------------------------------------------
(* Generic interpolation routines (far/interpolate.h)                      *)

\* A ConstIndexArray handed over as cvs.begin(): the table it points into,
\* the 0-based offset of its first element and its size.
IndexArray(table, begin, size) == [table |-> table, begin |-> begin, size |-> size]

\* cvs[k], k 0-based.
At(cvs, k) == cvs.table[cvs.begin + k + 1]

\* A routine that reads n indices from cvs.begin() runs past the end of the
\* table: undefined behaviour.
Overruns(cvs, n) == cvs.begin + n > Len(cvs.table)

\* A term <<c, q, f>> is the call dst.AddWithWeight(src[cvs[c]], f*Q[q], ...).
RECURSIVE Accumulate(_, _, _, _, _, _)
Accumulate(d, terms, cvs, W, src, n) ==
    IF n = 0 THEN d
    ELSE LET prev == Accumulate(d, terms, cvs, W, src, n - 1)
             tm   == terms[n]
             q    == tm[2] + 1
         IN  AddWithWeight(prev, src[At(cvs, tm[1])],
                           tm[3] * W.Q[q], tm[3] * W.Qd1[q], tm[3] * W.Qd2[q])

BilinearTerms == [n \in 1..4 |-> << n - 1, n - 1, 1 >>]

RegularTerms == [n \in 1..16 |-> << n - 1, n - 1, 1 >>]

\* The missing row M0..M3 is mirrored: M[k] = 2*v[k] - v[k+4].
BoundaryTerms ==
    [n \in 1..8 |-> LET k == (n - 1) \div 2
                    IN  IF (n - 1) % 2 = 0 THEN << k, k, 2 >>
                                           ELSE << k + 4, k, 0 - 1 >>]
    \o [n \in 1..12 |-> << n - 1, n + 3, 1 >>]

\* The missing row and column are mirrored; M3 = -2.v1 + 4.v2 + v4 - 2.v5.
CornerTerms ==
    [n \in 1..6 |-> LET k == (n - 1) \div 2
                    IN  IF (n - 1) % 2 = 0 THEN << k, k, 2 >>
                                           ELSE << k + 3, k, 0 - 1 >>]
    \o [n \in 1..6 |-> LET k   == (n - 1) \div 2
                           idx == (k + 1) * 4 + 3
                       IN  IF (n - 1) % 2 = 0 THEN << k * 3 + 2, idx, 2 >>
                                              ELSE << k * 3 + 1, idx, 0 - 1 >>]
    \o << << 1, 3, 0 - 2 >>, << 2, 3, 4 >>, << 4, 3, 1 >>, << 5, 3, 0 - 2 >> >>
    \o [n \in 1..9 |-> LET y == (n - 1) \div 3
                           x == (n - 1) % 3
                       IN  << y * 3 + x, y * 4 + x + 4, 1 >>]

\* Each routine clears the destination, then accumulates weight * src[index].
InterpolateBilinearPatch(cvs, W, src, dst) ==
    Accumulate(Clear, BilinearTerms, cvs, W, src, Len(BilinearTerms))

InterpolateRegularPatch(cvs, W, src, dst) ==
    Accumulate(Clear, RegularTerms, cvs, W, src, Len(RegularTerms))

InterpolateBoundaryPatch(cvs, W, src, dst) ==
    Accumulate(Clear, BoundaryTerms, cvs, W, src, Len(BoundaryTerms))

InterpolateCornerPatch(cvs, W, src, dst) ==
    Accumulate(Clear, CornerTerms, cvs, W, src, Len(CornerTerms))

\* One stencil: the weighted combination of source vertices of one row.
RECURSIVE ApplyStencil(_, _, _, _, _, _, _)
ApplyStencil(d, row, w, wd1, wd2, src, n) ==
    IF n = 0 THEN d
    ELSE LET prev == ApplyStencil(d, row, w, wd1, wd2, src, n - 1)
             e    == row[n]
         IN  AddWithWeight(prev, src[e[1]], e[2] * w, e[2] * wd1, e[2] * wd2)

RECURSIVE GregoryRows(_, _, _, _, _, _)
GregoryRows(d, stencils, stencilIndex, W, src, n) ==
    IF n = 0 THEN d
    ELSE LET prev == GregoryRows(d, stencils, stencilIndex, W, src, n - 1)
             row  == stencils[stencilIndex + n]
         IN  ApplyStencil(prev, row, W.Q[n], W.Qd1[n], W.Qd2[n], src, Len(row))

\* InterpolateGregoryPatch(basisStencils, stencilIndex, s, t, Q, Qd1, Qd2, src, dst):
\* the 16 Bezier points are the stencil rows from stencilIndex on.
InterpolateGregoryPatch(stencils, stencilIndex, W, src, dst) ==
    GregoryRows(Clear, stencils, stencilIndex, W, src, 16)

-----------------------------------------------------------------------------
(* The container: PatchTables' private members                             *)

VARIABLES
    patchArrays,                 \* _patchArrays
    patchVerts,                  \* _patchVerts
    paramTable,                  \* _paramTable
    endcapVertexStencilTables,   \* _endcapVertexStencilTables
    fvarChannels,                \* _fvarChannels
    pc,                          \* per caller: where its call stands
    call,                        \* per caller: the entry point and its arguments
    dst,                         \* per caller: its destination buffer
    locals,                      \* per caller: the call's local variables
    log,                         \* per caller: what the call has done so far
    source                       \* the application's source primvar buffer

tables == << patchArrays, patchVerts, paramTable, endcapVertexStencilTables,
             fvarChannels >>

vars == << patchArrays, patchVerts, paramTable, endcapVertexStencilTables,
           fvarChannels, pc, call, dst, locals, log, source >>

\* The object an evaluation method is called on.
This ==
    [patchArrays  |-> patchArrays,
     patchVerts   |-> patchVerts,
     paramTable   |-> paramTable,
     endcapVertexStencilTables |-> endcapVertexStencilTables,
     fvarChannels |-> fvarChannels]

(* Construction, by PatchTablesFactory *)

\* struct PatchArray, as pushPatchArray appends it: the array's descriptor,
\* its patch count and its first index in _patchVerts and in _paramTable.
RECURSIVE BuildPatchArrays(_, _)
BuildPatchArrays(layout, n) ==
    IF n = 0 THEN << >>
    ELSE LET before == BuildPatchArrays(layout, n - 1)
             last   == before[n - 1]
             ncvs   == GetNumControlVertices(layout[n].type)
         IN  Append(before,
                [desc       |-> [type |-> layout[n].type, ncvs |-> ncvs],
                 numPatches |-> layout[n].npatches,
                 vertIndex  |-> IF n = 1 THEN 0
                                ELSE last.vertIndex + last.numPatches * last.desc.ncvs,
                 patchIndex |-> IF n = 1 THEN 0
                                ELSE last.patchIndex + last.numPatches])

\* GetNumPatchesTotal
GetNumPatchesTotal(T) ==
    LET n == Len(T.patchArrays)
    IN  T.patchArrays[n].patchIndex + T.patchArrays[n].numPatches

NumControlVerticesOf(arrays) ==
    LET n == Len(arrays)
    IN  arrays[n].vertIndex + arrays[n].numPatches * arrays[n].desc.ncvs

\* An index table of the given length whose entries are vertices of the source.
IndexPattern(len, pat) ==
    [i \in 1..len |-> (((i - 1) * pat[1] + pat[2]) % NumVerts) + 1]

\* One PatchParam bitfield per patch.
ParamPattern(npatches, deep) ==
    [p \in 1..npatches |->
        IF deep THEN [depth |-> 1, u |-> (p - 1) % 2, v |-> p % 2]
        ELSE ClearBits]

\* The end-cap stencil table: 20 basis points per Gregory-basis patch, each
\* an affine combination (weights summing to 1) of source vertices.
StencilPattern(npatches) ==
    [r \in 1..(20 * npatches) |->
        IF r % 2 = 0 THEN << << (r % NumVerts) + 1, 1 >> >>
        ELSE << << (r % NumVerts) + 1, 2 >>, << ((r + 1) % NumVerts) + 1, 0 - 1 >> >>]

\* struct FVarPatchChannel: the type of each patch and the value indices of
\* all patches, each patch's slice following the previous one's.
RECURSIVE FVarOffsets(_, _)
FVarOffsets(types, n) ==
    IF n = 0 THEN << >>
    ELSE LET before == FVarOffsets(types, n - 1)
         IN  Append(before,
                IF n = 1 THEN 0
                ELSE before[n - 1] + GetNumControlVertices(types[n - 1]))

FVarPatchChannel(types, pat) ==
    LET n    == Len(types)
        offs == FVarOffsets(types, n)
    IN  [patchTypes          |-> types,
         patchValuesOffsets  |-> offs,
         patchValues         |-> IndexPattern(
                                    offs[n] + GetNumControlVertices(types[n]), pat)]

(* Accessors (far/patchTables.cpp) *)

\* True if the patches are of feature adaptive types: some patch is not a
\* bilinear quad.
IsFeatureAdaptive(T) ==
    \E a \in 1..Len(T.patchArrays) : T.patchArrays[a].desc.type # "QUADS"

\* GetPatchArrayDescriptor(array)
GetPatchArrayDescriptor(T, array) == T.patchArrays[array + 1].desc

\* GetPatchVertices(handle): the patch's slice of _patchVerts.
GetPatchVertices(T, handle) ==
    LET pa == T.patchArrays[handle.arrayIndex + 1]
    IN  IndexArray(T.patchVerts, pa.vertIndex + handle.vertIndex, pa.desc.ncvs)

\* GetFVarPatchType(channel, handle)
GetFVarPatchType(T, channel, handle) ==
    T.fvarChannels[channel + 1].patchTypes[handle.patchIndex + 1]

\* GetFVarPatchValues(channel, handle): the patch's slice of the channel's
\* value indices.
GetFVarPatchValues(T, channel, handle) ==
    LET c == T.fvarChannels[channel + 1]
    IN  IndexArray(c.patchValues, c.patchValuesOffsets[handle.patchIndex + 1],
                   GetNumControlVertices(c.patchTypes[handle.patchIndex + 1]))

\* class PatchHandle: the handles the container gives out, one per patch.
PatchHandles(T) ==
    { [arrayIndex |-> a - 1,
       patchIndex |-> T.patchArrays[a].patchIndex + p,
       vertIndex  |-> p * T.patchArrays[a].desc.ncvs] :
        << a, p >> \in { ap \in (1..Len(T.patchArrays)) \X (0..1) :
                            ap[2] < T.patchArrays[ap[1]].numPatches } }

-----------------------------------------------------------------------------
(* A call in progress: its frame                                           *)

NoArray == IndexArray(<< >>, 0, 0)

Ev(ev, what) == [ev |-> ev, what |-> what, cvs |-> NoArray]

EvCvs(ev, what, cvs) == [ev |-> ev, what |-> what, cvs |-> cvs]

\* What undefined behaviour may produce: a fault, or any destination.
Garbage == [point |-> 7, deriv1 |-> 0 - 3, deriv2 |-> 5]
NoUB == [crash |-> FALSE, dst |-> Clear]
UBOutcomes == { [crash |-> TRUE, dst |-> Clear], NoUB, [crash |-> FALSE, dst |-> Garbage] }

NoLocals ==
    [bits |-> ClearBits, ptype |-> "NONE", cvs |-> NoArray,
     undefined |-> FALSE, ub |-> NoUB]

\* assert(cond) failing at the given line: abort().
Abort(f, line) ==
    [f EXCEPT !.pc = "aborted", !.log = Append(@, Ev("assert", line))]

\* The number of indices a routine reads from cvs.begin().
RoutineReads(routine) ==
    CASE routine = "InterpolateBilinearPatch" -> 4
      [] routine = "InterpolateRegularPatch"  -> 16
      [] routine = "InterpolateBoundaryPatch" -> 12
      [] routine = "InterpolateCornerPatch"   -> 9

Interpolate(routine, cvs, W, src, d) ==
    CASE routine = "InterpolateBilinearPatch" -> InterpolateBilinearPatch(cvs, W, src, d)
      [] routine = "InterpolateRegularPatch"  -> InterpolateRegularPatch(cvs, W, src, d)
      [] routine = "InterpolateBoundaryPatch" -> InterpolateBoundaryPatch(cvs, W, src, d)
      [] routine = "InterpolateCornerPatch"   -> InterpolateCornerPatch(cvs, W, src, d)

\* The call of an interpolation routine on cvs.begin(), the last statement of
\* its branch.  Reading past the end of the index table is undefined: ub is
\* what the build makes of it.
Invoke(f, routine, cvs, W, ub) ==
    LET g == [f EXCEPT !.log = Append(@, EvCvs("interpolate", routine, cvs))]
    IN  IF Overruns(cvs, RoutineReads(routine))
        THEN [g EXCEPT !.pc = IF ub.crash THEN "crashed" ELSE "done",
                       !.dst = IF ub.crash THEN @ ELSE ub.dst,
                       !.locals.undefined = TRUE,
                       !.locals.ub = ub]
        ELSE [g EXCEPT !.pc = "done",
                       !.dst = Interpolate(routine, cvs, W, f.call.src, f.dst)]

GetWeights(basis, bits, s, t) ==
    CASE basis = "Bilinear" -> GetBilinearWeights(bits, s, t)
      [] basis = "BSpline"  -> GetBSplineWeights(bits, s, t)
      [] basis = "Bezier"   -> GetBezierWeights(bits, s, t)

-----------------------------------------------------------------------------
(* PatchTables::Evaluate                                                   *)

\* Mutation of Evaluate_453: the assertion is missing.
Evaluate_453_NoAssert(T, f) == [f EXCEPT !.pc = "Evaluate_455"]

\* assert(IsFeatureAdaptive());
Evaluate_453(T, f) ==
    IF IsFeatureAdaptive(T) THEN [f EXCEPT !.pc = "Evaluate_455"]
    ELSE Abort(f, "453")

\* bits = _paramTable[handle.patchIndex].bitField;
\* ptype = GetPatchArrayDescriptor(handle.arrayIndex).GetType();
Evaluate_455(T, f) ==
    [f EXCEPT !.pc = "Evaluate_460",
              !.locals.bits = T.paramTable[f.call.handle.patchIndex + 1],
              !.locals.ptype = GetPatchArrayDescriptor(T, f.call.handle.arrayIndex).type,
              !.log = @ \o << Ev("read", "_paramTable"), Ev("read", "_patchArrays") >>]

\* Mutation of Evaluate_460: the destination is not cleared.
Evaluate_460_NoClear(T, f) == [f EXCEPT !.pc = "Evaluate_464"]

\* dst.Clear();
Evaluate_460(T, f) ==
    [f EXCEPT !.pc = "Evaluate_464", !.dst = Clear,
              !.log = Append(@, Ev("clear", "dst"))]

\* Mutation of InBicubicBand: the band runs on through the Gregory types.
InBicubicBand_ThroughGregory(ptype) ==
    TypeOrd(ptype) >= TypeOrd("REGULAR") /\ TypeOrd(ptype) <= TypeOrd("GREGORY_BOUNDARY")

\* ptype>=PatchDescriptor::REGULAR and ptype<=PatchDescriptor::CORNER
InBicubicBand(ptype) ==
    TypeOrd(ptype) >= TypeOrd("REGULAR") /\ TypeOrd(ptype) <= TypeOrd("CORNER")

\* Mutation of EvaluateSwitch: the BOUNDARY and CORNER cases call each
\* other's routine.
EvaluateSwitch_BoundaryCornerSwapped(ptype) ==
    CASE ptype = "REGULAR"          -> "InterpolateRegularPatch"
      [] ptype = "SINGLE_CREASE"    -> "break"
      [] ptype = "BOUNDARY"         -> "InterpolateCornerPatch"
      [] ptype = "CORNER"           -> "InterpolateBoundaryPatch"
      [] ptype = "GREGORY"          -> "486"
      [] ptype = "GREGORY_BOUNDARY" -> "486"
      [] OTHER                      -> "489"

\* Mutation of EvaluateSwitch: the SINGLE_CREASE case runs the call that
\* the code of line 476 has commented out.
EvaluateSwitch_SingleCreaseAsRegular(ptype) ==
    CASE ptype = "REGULAR"          -> "InterpolateRegularPatch"
      [] ptype = "SINGLE_CREASE"    -> "InterpolateRegularPatch"
      [] ptype = "BOUNDARY"         -> "InterpolateBoundaryPatch"
      [] ptype = "CORNER"           -> "InterpolateCornerPatch"
      [] ptype = "GREGORY"          -> "486"
      [] ptype = "GREGORY_BOUNDARY" -> "486"
      [] OTHER                      -> "489"

\* switch (ptype) inside the bicubic band: the routine called, "break" for
\* the empty SINGLE_CREASE case, or the line of the assert(0) reached.
EvaluateSwitch(ptype) ==
    CASE ptype = "REGULAR"          -> "InterpolateRegularPatch"
      [] ptype = "SINGLE_CREASE"    -> "break"
      [] ptype = "BOUNDARY"         -> "InterpolateBoundaryPatch"
      [] ptype = "CORNER"           -> "InterpolateCornerPatch"
      [] ptype = "GREGORY"          -> "486"
      [] ptype = "GREGORY_BOUNDARY" -> "486"
      [] OTHER                      -> "489"

\* Mutation of EvaluateGregoryBasis: the stencil rows are taken from the
\* start of the table, not from handle.vertIndex.
EvaluateGregoryBasis_RowZero(T, f) ==
    IF T.endcapVertexStencilTables.null THEN Abort(f, "493")
    ELSE LET W == GetBezierWeights(f.locals.bits, f.call.s, f.call.t)
         IN  [f EXCEPT !.pc = "done",
                       !.dst = InterpolateGregoryPatch(
                                   T.endcapVertexStencilTables.stencils,
                                   0, W, f.call.src, f.dst),
                       !.log = @ \o << Ev("weights", "Bezier"),
                                       Ev("read", "_endcapVertexStencilTables"),
                                       EvCvs("interpolate", "InterpolateGregoryPatch",
                                             IndexArray(<< >>, 0, 16)) >>]

\* The GREGORY_BASIS branch.
EvaluateGregoryBasis(T, f) ==
    IF T.endcapVertexStencilTables.null THEN Abort(f, "493")
    ELSE LET W == GetBezierWeights(f.locals.bits, f.call.s, f.call.t)
             stencilIndex == f.call.handle.vertIndex
         IN  [f EXCEPT !.pc = "done",
                       !.dst = InterpolateGregoryPatch(
                                   T.endcapVertexStencilTables.stencils,
                                   stencilIndex, W, f.call.src, f.dst),
                       !.log = @ \o << Ev("weights", "Bezier"),
                                       Ev("read", "_endcapVertexStencilTables"),
                                       EvCvs("interpolate", "InterpolateGregoryPatch",
                                             IndexArray(<< >>, stencilIndex, 16)) >>]

\* Mutation of EvaluateQuads: the weights are computed from a cleared
\* bitfield, as EvaluateFaceVarying does, not from the patch's own.
EvaluateQuads_ClearedBits(T, f, ub) ==
    LET cvs == GetPatchVertices(T, f.call.handle)
        W   == GetBilinearWeights(ClearBits, f.call.s, f.call.t)
        g   == [f EXCEPT !.locals.cvs = cvs,
                         !.log = @ \o << Ev("read", "_patchVerts"),
                                         Ev("weights", "Bilinear") >>]
    IN  Invoke(g, "InterpolateBilinearPatch", cvs, W, ub)

\* The QUADS branch.
EvaluateQuads(T, f, ub) ==
    LET cvs == GetPatchVertices(T, f.call.handle)
        W   == GetBilinearWeights(f.locals.bits, f.call.s, f.call.t)
        g   == [f EXCEPT !.locals.cvs = cvs,
                         !.log = @ \o << Ev("read", "_patchVerts"),
                                         Ev("weights", "Bilinear") >>]
    IN  Invoke(g, "InterpolateBilinearPatch", cvs, W, ub)

\* The bicubic band's branch.
EvaluateBicubic(T, f, ub) ==
    LET W   == GetBSplineWeights(f.locals.bits, f.call.s, f.call.t)
        cvs == GetPatchVertices(T, f.call.handle)
        g   == [f EXCEPT !.locals.cvs = cvs,
                         !.log = @ \o << Ev("weights", "BSpline"),
                                         Ev("read", "_patchVerts") >>]
        sw  == EvaluateSwitch(f.locals.ptype)
    IN  CASE sw = "break"            -> [g EXCEPT !.pc = "done"]
          [] sw \in {"486", "489"}   -> Abort(g, sw)
          [] OTHER                   -> Invoke(g, sw, cvs, W, ub)

\* if (band) {...} else if (GREGORY_BASIS) {...} else if (QUADS) {...}
\* else { assert(0); }
Evaluate_464(T, f, ub) ==
    IF InBicubicBand(f.locals.ptype) THEN EvaluateBicubic(T, f, ub)
    ELSE IF f.locals.ptype = "GREGORY_BASIS" THEN EvaluateGregoryBasis(T, f)
    ELSE IF f.locals.ptype = "QUADS" THEN EvaluateQuads(T, f, ub)
    ELSE Abort(f, "507")

-----------------------------------------------------------------------------
(* PatchTables::EvaluateFaceVarying                                        *)

\* Mutation of EvaluateFaceVarying_520: the bitfield is the vertex patch's,
\* as in Evaluate, not a cleared one.
EvaluateFaceVarying_520_ParamBits(T, f) ==
    [f EXCEPT !.pc = "EvaluateFaceVarying_529",
              !.locals.cvs = GetFVarPatchValues(T, f.call.channel, f.call.handle),
              !.locals.ptype = GetFVarPatchType(T, f.call.channel, f.call.handle),
              !.locals.bits = T.paramTable[f.call.handle.patchIndex + 1],
              !.log = Append(@, Ev("read", "_fvarChannels"))]

\* cvs = GetFVarPatchValues(channel, handle);
\* type = GetFVarPatchType(channel, handle);  bits.Clear();
EvaluateFaceVarying_520(T, f) ==
    [f EXCEPT !.pc = "EvaluateFaceVarying_529",
              !.locals.cvs = GetFVarPatchValues(T, f.call.channel, f.call.handle),
              !.locals.ptype = GetFVarPatchType(T, f.call.channel, f.call.handle),
              !.locals.bits = ClearBits,
              !.log = Append(@, Ev("read", "_fvarChannels"))]

\* The condition of assert("not implemented yet"): a string literal is a
\* non-null pointer, which converts to true.
StringLiteralCondition == TRUE

\* switch (type): the basis and routine of the case that runs, or the line of
\* the assertion that fails.  The TRIANGLES case has no break: when its
\* assertion holds, control falls through into the REGULAR case.
FVarSwitch(type) ==
    CASE type = "QUADS" ->
            [assert |-> "", basis |-> "Bilinear", routine |-> "InterpolateBilinearPatch"]
      [] type = "TRIANGLES" /\ ~StringLiteralCondition ->
            [assert |-> "535", basis |-> "", routine |-> ""]
      [] type = "REGULAR" \/ (type = "TRIANGLES" /\ StringLiteralCondition) ->
            [assert |-> "", basis |-> "BSpline", routine |-> "InterpolateRegularPatch"]
      [] type = "BOUNDARY" ->
            [assert |-> "", basis |-> "BSpline", routine |-> "InterpolateBoundaryPatch"]
      [] type = "CORNER" ->
            [assert |-> "", basis |-> "BSpline", routine |-> "InterpolateCornerPatch"]
      [] OTHER ->
            [assert |-> "549", basis |-> "", routine |-> ""]

EvaluateFaceVarying_529(T, f, ub) ==
    LET sw == FVarSwitch(f.locals.ptype)
    IN  IF sw.assert # "" THEN Abort(f, sw.assert)
        ELSE LET W == GetWeights(sw.basis, f.locals.bits, f.call.s, f.call.t)
                 g == [f EXCEPT !.log = Append(@, Ev("weights", sw.basis))]
             IN  Invoke(g, sw.routine, f.locals.cvs, W, ub)

-----------------------------------------------------------------------------
(* PatchTables::EvaluateBilinear                                           *)

\* Mutation of EvaluateBilinear_563: the size assertion is missing.
EvaluateBilinear_563_NoAssert(T, f) ==
    [f EXCEPT !.pc = "EvaluateBilinear_566",
              !.locals.cvs = GetPatchVertices(T, f.call.handle),
              !.log = Append(@, Ev("read", "_patchVerts"))]

\* cvs = GetPatchVertices(handle);  assert(cvs.size()==4);
EvaluateBilinear_563(T, f) ==
    LET cvs == GetPatchVertices(T, f.call.handle)
        g   == [f EXCEPT !.locals.cvs = cvs,
                         !.log = Append(@, Ev("read", "_patchVerts"))]
    IN  IF cvs.size = 4 THEN [g EXCEPT !.pc = "EvaluateBilinear_566"]
        ELSE Abort(g, "564")

\* bits = _paramTable[handle.patchIndex].bitField;
EvaluateBilinear_566(T, f) ==
    [f EXCEPT !.pc = "EvaluateBilinear_569",
              !.locals.bits = T.paramTable[f.call.handle.patchIndex + 1],
              !.log = Append(@, Ev("read", "_paramTable"))]

\* dst.Clear();
EvaluateBilinear_569(T, f) ==
    [f EXCEPT !.pc = "EvaluateBilinear_571", !.dst = Clear,
              !.log = Append(@, Ev("clear", "dst"))]

\* GetBilinearWeights(bits, s, t, Q, Qd1, Qd2);
\* InterpolateBilinearPatch(cvs.begin(), Q, Qd1, Qd2, src, dst);
EvaluateBilinear_571(T, f, ub) ==
    LET W == GetBilinearWeights(f.locals.bits, f.call.s, f.call.t)
        g == [f EXCEPT !.log = Append(@, Ev("weights", "Bilinear"))]
    IN  Invoke(g, "InterpolateBilinearPatch", f.locals.cvs, W, ub)

-----------------------------------------------------------------------------
(* The callers                                                             *)

Threads == {1, 2}

Ops == {"Evaluate", "EvaluateFaceVarying", "EvaluateBilinear"}

StartPc(op) ==
    CASE op = "Evaluate"            -> "Evaluate_453"
      [] op = "EvaluateFaceVarying" -> "EvaluateFaceVarying_520"
      [] op = "EvaluateBilinear"    -> "EvaluateBilinear_563"

Finished == {"done", "aborted", "crashed"}

\* One statement group of a call.
Step(T, f, ub) ==
    CASE f.pc = "Evaluate_453"            -> Evaluate_453(T, f)
      [] f.pc = "Evaluate_455"            -> Evaluate_455(T, f)
      [] f.pc = "Evaluate_460"            -> Evaluate_460(T, f)
      [] f.pc = "Evaluate_464"            -> Evaluate_464(T, f, ub)
      [] f.pc = "EvaluateFaceVarying_520" -> EvaluateFaceVarying_520(T, f)
      [] f.pc = "EvaluateFaceVarying_529" -> EvaluateFaceVarying_529(T, f, ub)
      [] f.pc = "EvaluateBilinear_563"    -> EvaluateBilinear_563(T, f)
      [] f.pc = "EvaluateBilinear_566"    -> EvaluateBilinear_566(T, f)
      [] f.pc = "EvaluateBilinear_569"    -> EvaluateBilinear_569(T, f)
      [] f.pc = "EvaluateBilinear_571"    -> EvaluateBilinear_571(T, f, ub)

\* The frame a call starts with.
Enter(c) ==
    [pc |-> StartPc(c.op), call |-> c, dst |-> c.dst0, locals |-> NoLocals,
     log |-> << >>]

\* A call run from start to end with no other call in progress.
RECURSIVE Run(_, _, _)
Run(T, f, ub) == IF f.pc \in Finished THEN f ELSE Run(T, Step(T, f, ub), ub)

RunAlone(T, c, ub) == Run(T, Enter(c), ub)

Frame(t) ==
    [pc |-> pc[t], call |-> call[t], dst |-> dst[t], locals |-> locals[t],
     log |-> log[t]]

\* abort() and a fault end the process: no thread takes another step.
Halted == \E t \in Threads : pc[t] \in {"aborted", "crashed"}

\* Mutation of Commit: the callers share one destination.
Commit_SharedDestination(t, g) ==
    /\ pc' = [pc EXCEPT ![t] = g.pc]
    /\ dst' = [u \in Threads |-> g.dst]
    /\ locals' = [locals EXCEPT ![t] = g.locals]
    /\ log' = [log EXCEPT ![t] = g.log]
    /\ UNCHANGED << call, source, tables >>

\* A caller writes its own frame and its own destination, nothing else.
Commit(t, g) ==
    /\ pc' = [pc EXCEPT ![t] = g.pc]
    /\ dst' = [dst EXCEPT ![t] = g.dst]
    /\ locals' = [locals EXCEPT ![t] = g.locals]
    /\ log' = [log EXCEPT ![t] = g.log]
    /\ UNCHANGED << call, source, tables >>

-----------------------------------------------------------------------------
(* Initial states: a finished container and idle callers                   *)

VertPatterns == { << 1, 0 >>, << 2, 1 >> }

FVarValuePattern == << 3, 2 >>

Sources ==
    { [i \in 1..NumVerts |-> i * i], [i \in 1..NumVerts |-> 10 - 3 * i] }

\* The destination a caller hands in: freshly cleared, or holding old data.
DstStates == { Clear, [point |-> 1000, deriv1 |-> 0 - 50, deriv2 |-> 9] }

Arr(type, n) == << [type |-> type, npatches |-> n] >>

\* Patch arrays of a table: one array of any type, or an array of quads
\* followed by an array of another type.
Layouts ==
    { Arr(x, 2) : x \in Types }
    \cup { Arr("QUADS", 1) \o Arr(x, 2) : x \in Types \ {"QUADS"} }

\* The patch types of a face-varying channel of n patches.
FVarKinds ==
    {"QUADS", "TRIANGLES", "REGULAR", "BOUNDARY", "CORNER", "GREGORY_BASIS", "mixed"}

FVarTypes(kind, n) ==
    [p \in 1..n |-> IF kind = "mixed"
                    THEN (IF p % 2 = 1 THEN "TRIANGLES" ELSE "REGULAR")
                    ELSE kind]

\* The number of patches of the given type.
RECURSIVE CountPatches(_, _, _)
CountPatches(layout, type, n) ==
    IF n = 0 THEN 0
    ELSE CountPatches(layout, type, n - 1)
         + (IF layout[n].type = type THEN layout[n].npatches ELSE 0)

\* The tables the factory may have built.
Configs ==
    { [layout |-> l, vpat |-> vp, deep |-> dp, null |-> nl, fvar |-> "mixed"] :
        l \in Layouts, vp \in VertPatterns, dp \in BOOLEAN, nl \in BOOLEAN }
    \cup
    { [layout |-> Arr("QUADS", 1) \o Arr("REGULAR", 2),
       vpat |-> << 1, 0 >>, deep |-> dp, null |-> TRUE, fvar |-> k] :
        dp \in BOOLEAN, k \in FVarKinds }

Built(cfg) ==
    LET arrays == BuildPatchArrays(cfg.layout, Len(cfg.layout))
        n      == arrays[Len(arrays)].patchIndex + arrays[Len(arrays)].numPatches
    IN  [patchArrays  |-> arrays,
         patchVerts   |-> IndexPattern(NumControlVerticesOf(arrays), cfg.vpat),
         paramTable   |-> ParamPattern(n, cfg.deep),
         endcapVertexStencilTables |->
             [null |-> cfg.null,
              stencils |-> IF cfg.null THEN << >>
                           ELSE StencilPattern(CountPatches(cfg.layout, "GREGORY_BASIS",
                                                       Len(cfg.layout)))],
         fvarChannels |->
             << FVarPatchChannel(FVarTypes(cfg.fvar, n), FVarValuePattern),
                FVarPatchChannel(FVarTypes("QUADS", n), << 1, 1 >>) >>]

InitTables(cfgs) ==
    \E cfg \in cfgs :
        LET T == Built(cfg)
        IN  /\ patchArrays = T.patchArrays
            /\ patchVerts = T.patchVerts
            /\ paramTable = T.paramTable
            /\ endcapVertexStencilTables = T.endcapVertexStencilTables
            /\ fvarChannels = T.fvarChannels

NoCall ==
    [op |-> "none", channel |-> 0,
     handle |-> [arrayIndex |-> 0, patchIndex |-> 0, vertIndex |-> 0],
     s |-> 0, t |-> 0, src |-> << >>, dst0 |-> Clear]

InitCallers(active) ==
    /\ pc = [t \in Threads |-> IF t \in active THEN "idle" ELSE "unused"]
    /\ call = [t \in Threads |-> NoCall]
    /\ dst = [t \in Threads |-> Clear]
    /\ locals = [t \in Threads |-> NoLocals]
    /\ log = [t \in Threads |-> << >>]

\* One caller.
Init ==
    /\ InitTables(Configs)
    /\ source \in Sources
    /\ InitCallers({1})

\* Two callers on one container.
ConcConfigs ==
    { [layout |-> l, vpat |-> << 2, 1 >>, deep |-> TRUE, null |-> FALSE,
       fvar |-> "mixed"] :
        l \in { Arr("QUADS", 1),
                Arr("QUADS", 1) \o Arr("BOUNDARY", 1),
                Arr("GREGORY_BASIS", 1) } }

InitConc ==
    /\ InitTables(ConcConfigs)
    /\ source = [i \in 1..NumVerts |-> i * i]
    /\ InitCallers(Threads)

-----------------------------------------------------------------------------
(* Actions                                                                 *)

\* A caller starts a call on a handle of the container, with its own
\* destination buffer.
Begin(t) ==
    /\ ~Halted
    /\ pc[t] = "idle"
    /\ \E op \in Ops, h \in PatchHandles(This), s \in 0..SDen, tt \in 0..SDen,
          d0 \in DstStates, ch \in 0..(Len(fvarChannels) - 1) :
        /\ op # "EvaluateFaceVarying" => ch = 0
        /\ LET c == [op |-> op, channel |-> ch, handle |-> h, s |-> s, t |-> tt,
                     src |-> source, dst0 |-> d0]
           IN  /\ call' = [call EXCEPT ![t] = c]
               /\ pc' = [pc EXCEPT ![t] = StartPc(op)]
               /\ dst' = [dst EXCEPT ![t] = d0]
               /\ locals' = [locals EXCEPT ![t] = NoLocals]
               /\ log' = [log EXCEPT ![t] = << >>]
    /\ UNCHANGED << source, tables >>

\* The call has returned: the caller takes its result away.
Return(t) ==
    /\ ~Halted
    /\ pc[t] = "done"
    /\ pc' = [pc EXCEPT ![t] = "idle"]
    /\ call' = [call EXCEPT ![t] = NoCall]
    /\ dst' = [dst EXCEPT ![t] = Clear]
    /\ locals' = [locals EXCEPT ![t] = NoLocals]
    /\ log' = [log EXCEPT ![t] = << >>]
    /\ UNCHANGED << source, tables >>

EvaluateAssert(t) ==
    /\ ~Halted /\ pc[t] = "Evaluate_453"
    /\ Commit(t, Evaluate_453(This, Frame(t)))

EvaluateRead(t) ==
    /\ ~Halted /\ pc[t] = "Evaluate_455"
    /\ Commit(t, Evaluate_455(This, Frame(t)))

EvaluateClear(t) ==
    /\ ~Halted /\ pc[t] = "Evaluate_460"
    /\ Commit(t, Evaluate_460(This, Frame(t)))

EvaluateDispatch(t) ==
    /\ ~Halted /\ pc[t] = "Evaluate_464"
    /\ \E ub \in UBOutcomes : Commit(t, Evaluate_464(This, Frame(t), ub))

FaceVaryingRead(t) ==
    /\ ~Halted /\ pc[t] = "EvaluateFaceVarying_520"
    /\ Commit(t, EvaluateFaceVarying_520(This, Frame(t)))

FaceVaryingDispatch(t) ==
    /\ ~Halted /\ pc[t] = "EvaluateFaceVarying_529"
    /\ \E ub \in UBOutcomes : Commit(t, EvaluateFaceVarying_529(This, Frame(t), ub))

BilinearVertices(t) ==
    /\ ~Halted /\ pc[t] = "EvaluateBilinear_563"
    /\ Commit(t, EvaluateBilinear_563(This, Frame(t)))

BilinearRead(t) ==
    /\ ~Halted /\ pc[t] = "EvaluateBilinear_566"
    /\ Commit(t, EvaluateBilinear_566(This, Frame(t)))

BilinearClear(t) ==
    /\ ~Halted /\ pc[t] = "EvaluateBilinear_569"
    /\ Commit(t, EvaluateBilinear_569(This, Frame(t)))

BilinearInterpolate(t) ==
    /\ ~Halted /\ pc[t] = "EvaluateBilinear_571"
    /\ \E ub \in UBOutcomes : Commit(t, EvaluateBilinear_571(This, Frame(t), ub))

Next ==
    \E t \in Threads :
        \/ Begin(t)
        \/ Return(t)
        \/ EvaluateAssert(t)
        \/ EvaluateRead(t)
        \/ EvaluateClear(t)
        \/ EvaluateDispatch(t)
        \/ FaceVaryingRead(t)
        \/ FaceVaryingDispatch(t)
        \/ BilinearVertices(t)
        \/ BilinearRead(t)
        \/ BilinearClear(t)
        \/ BilinearInterpolate(t)

Spec == Init /\ [][Next]_vars

SpecConc == InitConc /\ [][Next]_vars

-----------------------------------------------------------------------------
(* Properties                                                              *)

IsInterpolate(e) == e.ev = "interpolate"
IsWeights(e) == e.ev = "weights"
IsAssert(e) == e.ev = "assert"

\* The interpolation routines a call has invoked, the weights it has
\* computed and the assertions it has failed, in order.
Interpolations(t) == SelectSeq(log[t], IsInterpolate)
Weightings(t) == SelectSeq(log[t], IsWeights)
Asserts(t) == SelectSeq(log[t], IsAssert)

\* The type of the patch array the call's handle names, the patch's
\* control-vertex slice and its PatchParam bitfield.
HandleType(t) == GetPatchArrayDescriptor(This, call[t].handle.arrayIndex).type
HandleVertices(t) == GetPatchVertices(This, call[t].handle)
HandleBits(t) == paramTable[call[t].handle.patchIndex + 1]

C1_Expected(type) ==
    CASE type = "REGULAR"  -> [basis |-> "BSpline",  routine |-> "InterpolateRegularPatch"]
      [] type = "BOUNDARY" -> [basis |-> "BSpline",  routine |-> "InterpolateBoundaryPatch"]
      [] type = "CORNER"   -> [basis |-> "BSpline",  routine |-> "InterpolateCornerPatch"]
      [] type = "QUADS"    -> [basis |-> "Bilinear", routine |-> "InterpolateBilinearPatch"]

\* C1: Evaluate on a feature-adaptive table, for a REGULAR, BOUNDARY, CORNER
\* or QUADS patch, completes having computed the weights of the type's basis
\* (B-spline, or bilinear for QUADS) and invoked exactly one interpolation
\* routine, the type's own, on the control-vertex slice of the handle's
\* patch; the destination holds that routine's result.
C1_EvaluateSelectsByType ==
    \A t \in Threads :
        /\ Len(Interpolations(t)) <= 1
        /\ ( /\ call[t].op = "Evaluate"
             /\ pc[t] \in Finished
             /\ IsFeatureAdaptive(This)
             /\ HandleType(t) \in {"REGULAR", "BOUNDARY", "CORNER", "QUADS"} )
           => LET e == C1_Expected(HandleType(t))
                  W == GetWeights(e.basis, HandleBits(t), call[t].s, call[t].t)
              IN  /\ pc[t] = "done"
                  /\ Weightings(t) = << Ev("weights", e.basis) >>
                  /\ Interpolations(t)
                        = << EvCvs("interpolate", e.routine, HandleVertices(t)) >>
                  /\ dst[t] = Interpolate(e.routine, HandleVertices(t), W,
                                          call[t].src, Clear)

\* A CORNER patch that is not the first of its array has been evaluated.
C1_Witness ==
    \E t \in Threads :
        /\ call[t].op = "Evaluate" /\ pc[t] = "done"
        /\ HandleType(t) = "CORNER" /\ call[t].handle.vertIndex > 0
        /\ dst[t].point # 0

\* C2: EvaluateFaceVarying on a channel patch of type TRIANGLES fails an
\* assertion, having computed no weights and invoked no interpolation routine.
C2_TrianglesIsContractViolation ==
    \A t \in Threads :
        ( /\ call[t].op = "EvaluateFaceVarying"
          /\ GetFVarPatchType(This, call[t].channel, call[t].handle) = "TRIANGLES"
          /\ pc[t] \in Finished )
        => /\ pc[t] = "aborted"
           /\ Weightings(t) = << >>
           /\ Interpolations(t) = << >>

\* C3: Evaluate on a patch of type GREGORY, GREGORY_BOUNDARY, TRIANGLES (any
\* type outside REGULAR, SINGLE_CREASE, BOUNDARY, CORNER, GREGORY_BASIS,
\* QUADS) fails an assertion and invokes no interpolation routine; it is the
\* final else's assertion that fails, with no B-spline weights computed: the
\* Gregory types are not in the bicubic band.
C3_UnsupportedTypesAssert ==
    \A t \in Threads :
        ( /\ call[t].op = "Evaluate"
          /\ pc[t] \in Finished
          /\ HandleType(t) \notin {"REGULAR", "SINGLE_CREASE", "BOUNDARY", "CORNER",
                                   "GREGORY_BASIS", "QUADS"} )
        => /\ pc[t] = "aborted"
           /\ Interpolations(t) = << >>
           /\ Weightings(t) = << >>
           /\ Asserts(t) = << Ev("assert", "507") >>

\* Evaluate on a GREGORY_BOUNDARY patch has failed its assertion.
C3_Witness ==
    \E t \in Threads :
        /\ call[t].op = "Evaluate" /\ pc[t] = "aborted"
        /\ HandleType(t) = "GREGORY_BOUNDARY"

C5_GregoryBasisUsesStencils ==
    \A t \in Threads :
        ( call[t].op = "Evaluate" /\ HandleType(t) = "GREGORY_BASIS" )
        => /\ \A i \in 1..Len(log[t]) : log[t][i] # Ev("read", "_patchVerts")
           /\ pc[t] \in Finished =>
                IF endcapVertexStencilTables.null
                THEN /\ pc[t] = "aborted"
                     /\ Asserts(t) = << Ev("assert", "493") >>
                     /\ Weightings(t) = << >>
                     /\ Interpolations(t) = << >>
                ELSE /\ pc[t] = "done"
                     /\ Weightings(t) = << Ev("weights", "Bezier") >>
                     /\ Interpolations(t)
                          = << EvCvs("interpolate", "InterpolateGregoryPatch",
                                     IndexArray(<< >>, call[t].handle.vertIndex, 16)) >>
                     /\ dst[t] = InterpolateGregoryPatch(
                                    endcapVertexStencilTables.stencils,
                                    call[t].handle.vertIndex,
                                    GetBezierWeights(HandleBits(t), call[t].s, call[t].t),
                                    call[t].src, Clear)

\* The second Gregory-basis patch of a table with a stencil table has been
\* evaluated.
C5_Witness ==
    \E t \in Threads :
        /\ call[t].op = "Evaluate" /\ pc[t] = "done"
        /\ HandleType(t) = "GREGORY_BASIS"
        /\ call[t].handle.vertIndex = 20
        /\ ~endcapVertexStencilTables.null
        /\ dst[t].point # 0

\* C7: EvaluateBilinear fails its assertion when the handle's patch does not
\* have exactly 4 control vertices; when it has, it completes with bilinear
\* weights and the bilinear routine on the patch's slice, whatever the patch
\* array's type and whether or not the table is feature adaptive.
C7_BilinearWhateverTheType ==
    \A t \in Threads :
        ( call[t].op = "EvaluateBilinear" /\ pc[t] \in Finished )
        => IF HandleVertices(t).size # 4
           THEN /\ pc[t] = "aborted"
                /\ Asserts(t) = << Ev("assert", "564") >>
                /\ Weightings(t) = << >>
                /\ Interpolations(t) = << >>
                /\ dst[t] = call[t].dst0
           ELSE /\ pc[t] = "done"
                /\ Weightings(t) = << Ev("weights", "Bilinear") >>
                /\ Interpolations(t)
                     = << EvCvs("interpolate", "InterpolateBilinearPatch",
                                HandleVertices(t)) >>
                /\ dst[t] = InterpolateBilinearPatch(
                                HandleVertices(t),
                                GetBilinearWeights(HandleBits(t), call[t].s, call[t].t),
                                call[t].src, Clear)

\* EvaluateBilinear has completed on a 4-vertex patch of type GREGORY, in a
\* feature-adaptive table.
C7_Witness ==
    \E t \in Threads :
        /\ call[t].op = "EvaluateBilinear" /\ pc[t] = "done"
        /\ HandleType(t) = "GREGORY"
        /\ IsFeatureAdaptive(This)

\* Tables the factory may have built, of every kind of patch array.
BuiltTables ==
    { Built(cfg) :
        cfg \in { c \in Configs :
                    /\ c.fvar = "mixed" /\ ~c.null
                    /\ c.layout[Len(c.layout)].type
                          \in {"QUADS", "REGULAR", "CORNER", "GREGORY_BASIS"} } }

\* The tables of the same number of patches that the factory may have
\* built around the container's face-varying channels: they differ in the
\* patch arrays' types, the control-vertex indices, the PatchParam bitfields
\* and the stencil table.
C8_TablesAgreeingOnChannels ==
    { [T EXCEPT !.fvarChannels = fvarChannels] :
        T \in { B \in BuiltTables :
                   GetNumPatchesTotal(B) = GetNumPatchesTotal(This) } }

\* C8: a finished EvaluateFaceVarying call ends the same way, with the same
\* destination and having read the same, on every table that agrees with the container on the
\* face-varying channels, whatever its patch arrays' types, control-vertex
\* indices and PatchParam bitfields are (the build resolving any undefined
\* read the same way).
C8_FaceVaryingIgnoresVertexTables ==
    \A t \in Threads :
        ( call[t].op = "EvaluateFaceVarying" /\ pc[t] \in Finished )
        => \A T2 \in C8_TablesAgreeingOnChannels :
              RunAlone(T2, call[t], locals[t].ub) = Frame(t)

\* A face-varying BOUNDARY patch has been evaluated on a table whose vertex
\* patch has another type, other indices and a bitfield that is not cleared.
C8_Witness ==
    \E t \in Threads :
        /\ call[t].op = "EvaluateFaceVarying" /\ pc[t] = "done"
        /\ locals[t].ptype = "BOUNDARY"
        /\ HandleType(t) = "REGULAR"
        /\ HandleBits(t) # ClearBits
        /\ dst[t].point # 0
        /\ Cardinality(C8_TablesAgreeingOnChannels) > 1

\* The destination the interpolation logged by a call produces from a
\* cleared destination.
C10_WeightedSum(t) ==
    IF Interpolations(t) = << >> THEN Clear
    ELSE LET e == Interpolations(t)[1]
             W == GetWeights(Weightings(t)[1].what, locals[t].bits,
                             call[t].s, call[t].t)
         IN  IF e.what = "InterpolateGregoryPatch"
             THEN InterpolateGregoryPatch(endcapVertexStencilTables.stencils,
                                          e.cvs.begin, W, call[t].src, Clear)
             ELSE Interpolate(e.what, e.cvs, W, call[t].src, Clear)

C6_SameCall(t1, t2) ==
    /\ t1 # t2
    /\ call[t1].op = "EvaluateBilinear" /\ call[t2].op = "Evaluate"
    /\ call[t1].handle = call[t2].handle
    /\ call[t1].s = call[t2].s /\ call[t1].t = call[t2].t
    /\ call[t1].src = call[t2].src /\ call[t1].dst0 = call[t2].dst0
    /\ pc[t1] \in Finished /\ pc[t2] \in Finished

C9_CallsDoNotInterfere ==
    [][ /\ tables' = tables
        /\ \A t \in Threads :
              ( pc'[t] = "done"
                /\ ( pc[t] # "done" \/ dst'[t] # dst[t] \/ call'[t] # call[t]
                     \/ locals'[t] # locals[t] \/ log'[t] # log[t] ) ) =>
                 RunAlone(This', call'[t], locals'[t].ub) = Frame(t)' ]_vars

\* Two calls of different entry points have overlapped and both completed,
\* with different destinations.
C9_Witness ==
    /\ pc[1] = "done" /\ pc[2] = "done"
    /\ call[1].op = "Evaluate" /\ call[2].op = "EvaluateFaceVarying"
    /\ dst[1] # Clear /\ dst[2] # Clear
    /\ dst[1] # dst[2]

\* C11: Evaluate on a SINGLE_CREASE patch never fails an assertion nor
\* faults, invokes no interpolation routine at any point, and once it has
\* ended it has returned normally with the destination cleared, whatever
\* (s,t), the source and the destination's prior contents were.
C11_SingleCreaseReturnsCleared ==
    \A t \in Threads :
        ( call[t].op = "Evaluate" /\ HandleType(t) = "SINGLE_CREASE" )
        => /\ IsFeatureAdaptive(This)
           /\ pc[t] \notin {"aborted", "crashed"}
           /\ Asserts(t) = << >>
           /\ Interpolations(t) = << >>
           /\ ~locals[t].undefined
           /\ pc[t] = "done" => dst[t] = Clear

\* Evaluate has returned from a SINGLE_CREASE patch, at a location inside
\* the patch, over a source that is not all zero and a destination that held
\* data.
C11_Witness ==
    \E t \in Threads :
        /\ call[t].op = "Evaluate" /\ HandleType(t) = "SINGLE_CREASE"
        /\ pc[t] = "done"
        /\ call[t].dst0 # Clear
        /\ call[t].s > 0 /\ call[t].t > 0
        /\ \E i \in 1..Len(call[t].src) : call[t].src[i] # 0
        /\ Weightings(t) # << >>

=============================================================================
